---- MODULE Spec2Model ----
(***************************************************************************)
(* A model of package which (which.go): detection of the container format  *)
(* of an executable (newtbl, NewExec), resolution of the import path of    *)
(* its main package (Import, Exec.Import, guesspkg, genpkgpath) and the    *)
(* module-path reconstruction (pathtomodule).                              *)
(*                                                                         *)
(* A Go string is a sequence of one-character strings; indices of the Go   *)
(* code are 0-based and are kept 0-based in the operators below.  The host *)
(* is a Unix one: os.PathSeparator is "/".                                 *)
(***************************************************************************)
EXTENDS Integers, Sequences, FiniteSets, TLC

\* ------------------------------------------------------------------------
\* Bounds of the model
\* ------------------------------------------------------------------------

\* longest generated input of pathtomodule
MaxLen == 4

\* most entries of table.Files
MaxFiles == 3

\* ------------------------------------------------------------------------
\* Go strings
\* ------------------------------------------------------------------------

\* os.PathSeparator on the modelled host
PathSeparator == "/"

\* s[a:b] of Go
Slice(s, a, b) == SubSeq(s, a + 1, b)

\* s[a:] of Go
SliceFrom(s, a) == SubSeq(s, a + 1, Len(s))

\* strings.HasPrefix
HasPrefix(s, p) == Len(p) <= Len(s) /\ SubSeq(s, 1, Len(p)) = p

\* strings.HasSuffix
HasSuffix(s, p) == Len(p) <= Len(s) /\ SubSeq(s, Len(s) - Len(p) + 1, Len(s)) = p

\* the 0-based positions at which sub occurs in s
Occurrences(s, sub) ==
    {i \in 0..(Len(s) - Len(sub)) : SubSeq(s, i + 1, i + Len(sub)) = sub}

\* strings.Contains
Contains(s, sub) == Occurrences(s, sub) # {}

\* strings.LastIndex: the last occurrence, -1 when there is none
LastIndex(s, sub) ==
    IF Occurrences(s, sub) = {} THEN -1
    ELSE CHOOSE i \in Occurrences(s, sub) : \A j \in Occurrences(s, sub) : j <= i

\* strings.LastIndexByte
LastIndexByte(s, c) == LastIndex(s, <<c>>)

\* strings.IndexRune: the first occurrence, -1 when there is none
IndexRune(s, c) ==
    IF Occurrences(s, <<c>>) = {} THEN -1
    ELSE CHOOSE i \in Occurrences(s, <<c>>) : \A j \in Occurrences(s, <<c>>) : i <= j

\* strings.TrimSuffix
TrimSuffix(s, suf) == IF HasSuffix(s, suf) THEN Slice(s, 0, Len(s) - Len(suf)) ELSE s

\* filepath.ToSlash: every separator becomes "/"
ToSlash(s) == [i \in 1..Len(s) |-> IF s[i] = PathSeparator THEN "/" ELSE s[i]]

\* filepath.FromSlash: every "/" becomes the separator
FromSlash(s) == [i \in 1..Len(s) |-> IF s[i] = "/" THEN PathSeparator ELSE s[i]]

\* the segments of s between separators (empty segments included)
RECURSIVE Segments(_)
Segments(s) ==
    LET i == IndexRune(s, PathSeparator)
    IN  IF i = -1 THEN <<s>>
        ELSE <<Slice(s, 0, i)>> \o Segments(SliceFrom(s, i + 1))

\* strings.Join
RECURSIVE JoinWith(_, _)
JoinWith(segs, sep) ==
    IF Len(segs) = 0 THEN <<>>
    ELSE IF Len(segs) = 1 THEN segs[1]
    ELSE segs[1] \o sep \o JoinWith(Tail(segs), sep)

\* the lexical processing of filepath.Clean: the kept elements, given the
\* elements still to read and the ones kept so far
RECURSIVE CleanSegs(_, _, _)
CleanSegs(segs, kept, rooted) ==
    IF Len(segs) = 0 THEN kept
    ELSE LET e == segs[1]
             rest == Tail(segs)
         IN  IF e = <<>> \/ e = <<".">> THEN CleanSegs(rest, kept, rooted)
             ELSE IF e = <<".", ".">>
             THEN IF Len(kept) > 0 /\ kept[Len(kept)] # <<".", ".">>
                  THEN CleanSegs(rest, SubSeq(kept, 1, Len(kept) - 1), rooted)
                  ELSE IF rooted THEN CleanSegs(rest, kept, rooted)
                  ELSE CleanSegs(rest, Append(kept, e), rooted)
             ELSE CleanSegs(rest, Append(kept, e), rooted)

\* filepath.Clean
Clean(path) ==
    IF path = <<>> THEN <<".">>
    ELSE LET rooted == path[1] = PathSeparator
             body == JoinWith(CleanSegs(Segments(path), <<>>, rooted), <<PathSeparator>>)
         IN  IF rooted THEN <<PathSeparator>> \o body
             ELSE IF body = <<>> THEN <<".">>
             ELSE body

\* filepath.Join: the leading empty elements are dropped, the rest is joined
\* with the separator and cleaned; all elements empty gives ""
RECURSIVE Join(_)
Join(elems) ==
    IF Len(elems) = 0 THEN <<>>
    ELSE IF elems[1] = <<>> THEN Join(Tail(elems))
    ELSE Clean(JoinWith(elems, <<PathSeparator>>))

\* filepath.Dir without the Clean: the directory keeps its trailing separator
DirNoClean(path) == Slice(path, 0, LastIndex(path, <<PathSeparator>>) + 1)

\* filepath.Dir
Dir(path) == Clean(Slice(path, 0, LastIndex(path, <<PathSeparator>>) + 1))

\* path without its trailing separators (filepath.Base, first loop)
RECURSIVE StripTrailing(_)
StripTrailing(path) ==
    IF Len(path) > 0 /\ path[Len(path)] = PathSeparator
    THEN StripTrailing(Slice(path, 0, Len(path) - 1))
    ELSE path

\* filepath.Base
Base(path) ==
    IF path = <<>> THEN <<".">>
    ELSE LET p == StripTrailing(path)
             q == SliceFrom(p, LastIndex(p, <<PathSeparator>>) + 1)
         IN  IF q = <<>> THEN <<PathSeparator>> ELSE q

\* ------------------------------------------------------------------------
\* pathtomodule
\* ------------------------------------------------------------------------

\* pathtomodule with the version joined as a third path element, which puts
\* a separator before the "@" ('.../cmd/program/@v...')
pathtomoduleJoinAll(dir) ==
    LET ati == LastIndexByte(dir, "@")
        versuf == SliceFrom(dir, ati)
        tdir == IndexRune(versuf, PathSeparator)
    IN  IF ati = -1 THEN dir
        ELSE IF tdir = -1 THEN dir
        ELSE Join(<<Slice(dir, 0, ati), SliceFrom(versuf, tdir), Slice(versuf, 0, tdir)>>)

pathtomodule(dir) ==
    LET ati == LastIndexByte(dir, "@")
        versuf == SliceFrom(dir, ati)
        tdir == IndexRune(versuf, PathSeparator)
    IN  IF ati = -1 THEN dir
        ELSE IF tdir = -1 THEN dir
        ELSE Join(<<Slice(dir, 0, ati), SliceFrom(versuf, tdir)>>) \o Slice(versuf, 0, tdir)

\* ------------------------------------------------------------------------
\* State
\* ------------------------------------------------------------------------

VARIABLES
    \* format detection: newtbl and NewExec
    goos,         \* runtime.GOOS of the host
    alltbl,       \* the reader constructors, in the order init() gave them
    ti,           \* position of the range loop of newtbl in alltbl (1-based)
    tpc,          \* the statement newtbl or NewExec is at
    tbl,          \* the handle held in newtbl's tbl ("nil" when none)
    err,          \* newtbl's err
    symtab,       \* newtbl's symtab
    pclntab,      \* newtbl's pclntab
    text,         \* newtbl's text
    typ,          \* newtbl's typ
    openHandles,  \* the handles open at the moment
    opened,       \* per reader, how often its constructor returned a handle
    closed,       \* per reader, how often Close was called on its handle
    resp,         \* per reader, what its trial met
    tried,        \* the readers whose constructor was called, in call order
    nexec,        \* the result of NewExec
    \* calls of pathtomodule
    mdir,         \* the argument of a call of pathtomodule
    mout,         \* its result
    mpc,          \* "call" before the call, "ret" after it
    \* resolution: Import, Exec.Import, genpkgpath
    ipc,          \* the statement Import or Exec.Import is at
    expath,       \* the path Import was called with (ex.Path)
    ex,           \* the Exec: its Type and its symbol table
    ename,        \* name of Exec.Import: the executable's base name
    dirs,         \* dirs of Exec.Import
    gdir,         \* the directory genpkgpath was called with
    genv,         \* the environment genpkgpath ran in
    gret,         \* what genpkgpath returned
    ret,          \* what Import returned
    ran           \* the steps of the resolution that ran

tblvars == <<goos, alltbl, ti, tpc, tbl, err, symtab, pclntab, text, typ,
             openHandles, opened, closed, resp, tried, nexec>>
modvars == <<mdir, mout, mpc>>
impvars == <<ipc, expath, ex, ename, dirs, gdir, genv, gret, ret, ran>>
vars == <<tblvars, modvars, impvars>>

\* ------------------------------------------------------------------------
\* Format detection: init, newtbl, NewExec
\* ------------------------------------------------------------------------

Readers == {"newelf", "newmacho", "newpe"}

HostSystems == {"darwin", "windows", "linux"}

ErrNotGoExec == "which: not a Go executable"
ErrGuessFail == "which: unable to guess an import path of the main package"
\* the error fail() builds around the error of an extraction step
ErrReadSymtab == "which: unable to read Go symbol table: ..."

PlatformDarwin386 == [GOOS |-> "darwin", GOARCH |-> "386"]
PlatformDarwinAMD64 == [GOOS |-> "darwin", GOARCH |-> "amd64"]
PlatformFreeBSD386 == [GOOS |-> "freebsd", GOARCH |-> "386"]
PlatformFreeBSDAMD64 == [GOOS |-> "freebsd", GOARCH |-> "amd64"]
PlatformLinux386 == [GOOS |-> "linux", GOARCH |-> "386"]
PlatformLinuxAMD64 == [GOOS |-> "linux", GOARCH |-> "amd64"]
PlatformWindows386 == [GOOS |-> "windows", GOARCH |-> "386"]
PlatformWindowsAMD64 == [GOOS |-> "windows", GOARCH |-> "amd64"]

PlatformTypes ==
    {PlatformDarwin386, PlatformDarwinAMD64, PlatformFreeBSD386, PlatformFreeBSDAMD64,
     PlatformLinux386, PlatformLinuxAMD64, PlatformWindows386, PlatformWindowsAMD64}

\* the order init() appends the constructors in
initAlltbl(os) ==
    CASE os = "darwin" -> <<"newmacho", "newelf", "newpe">>
      [] os = "windows" -> <<"newpe", "newmacho", "newelf">>
      [] OTHER -> <<"newelf", "newmacho", "newpe">>

\* what the extraction steps of the handle of reader r return
SymOf(r) == [kind |-> "symtab", from |-> r]
PclnOf(r) == [kind |-> "pclntab", from |-> r]
TextOf(r) == [kind |-> "text", from |-> r]
TypeOf(r, p) == [kind |-> "type", from |-> r, platform |-> p]

NoValue == [kind |-> "zero"]

InitTbl ==
    /\ goos \in HostSystems
    /\ alltbl = initAlltbl(goos)
    /\ ti = 1
    /\ tpc = "range"
    /\ tbl = "nil"
    /\ err = "nil"
    /\ symtab = NoValue
    /\ pclntab = NoValue
    /\ text = NoValue
    /\ typ = NoValue
    /\ openHandles = {}
    /\ opened = [r \in Readers |-> 0]
    /\ closed = [r \in Readers |-> 0]
    /\ resp = [r \in Readers |-> "untried"]
    /\ tried = <<>>
    /\ nexec = [state |-> "running"]

\* tbl.Close()
Close(h) ==
    /\ closed' = [closed EXCEPT ![h] = @ + 1]
    /\ openHandles' = openHandles \ {h}

\* fail() with the Close left out
failLeak ==
    /\ err' = ErrReadSymtab
    /\ UNCHANGED <<closed, openHandles>>

\* the closure fail of newtbl
fail ==
    /\ err' = ErrReadSymtab
    /\ Close(tbl)

\* continue written as break: a failed trial ends the loop
continueBreaks ==
    /\ ti' = ti + 1
    /\ tpc' = "return"

\* continue: the range loop moves to the next constructor
continue ==
    /\ ti' = ti + 1
    /\ tpc' = "range"

\* the range loop is over: return
TblReturn ==
    /\ tpc = "range"
    /\ ti > Len(alltbl)
    /\ tpc' = "return"
    /\ UNCHANGED <<goos, alltbl, ti, tbl, err, symtab, pclntab, text, typ,
                   openHandles, opened, closed, resp, tried, nexec>>

\* tbl, err = newt(path)
TblOpen ==
    /\ tpc = "range"
    /\ ti <= Len(alltbl)
    /\ LET r == alltbl[ti]
       IN  /\ tried' = Append(tried, r)
           /\ \E ok \in BOOLEAN :
                IF ok
                THEN /\ tbl' = r
                     /\ err' = "nil"
                     /\ openHandles' = openHandles \cup {r}
                     /\ opened' = [opened EXCEPT ![r] = @ + 1]
                     /\ tpc' = "Sym"
                     /\ UNCHANGED <<ti, resp>>
                ELSE /\ tbl' = "nil"
                     /\ err' = ErrNotGoExec
                     /\ resp' = [resp EXCEPT ![r] = "open failed"]
                     /\ continue
                     /\ UNCHANGED <<openHandles, opened>>
    /\ UNCHANGED <<goos, alltbl, symtab, pclntab, text, typ, closed, nexec>>

\* symtab, err = tbl.Sym()
TblSym ==
    /\ tpc = "Sym"
    /\ \E ok \in BOOLEAN :
         IF ok
         THEN /\ symtab' = SymOf(tbl)
              /\ err' = "nil"
              /\ tpc' = "Pcln"
              /\ UNCHANGED <<ti, resp, closed, openHandles>>
         ELSE /\ symtab' = NoValue
              /\ fail
              /\ resp' = [resp EXCEPT ![tbl] = "Sym failed"]
              /\ continue
    /\ UNCHANGED <<goos, alltbl, tbl, pclntab, text, typ, opened, tried, nexec>>

\* pclntab, err = tbl.Pcln()
TblPcln ==
    /\ tpc = "Pcln"
    /\ \E ok \in BOOLEAN :
         IF ok
         THEN /\ pclntab' = PclnOf(tbl)
              /\ err' = "nil"
              /\ tpc' = "Text"
              /\ UNCHANGED <<ti, resp, closed, openHandles>>
         ELSE /\ pclntab' = NoValue
              /\ fail
              /\ resp' = [resp EXCEPT ![tbl] = "Pcln failed"]
              /\ continue
    /\ UNCHANGED <<goos, alltbl, tbl, symtab, text, typ, opened, tried, nexec>>

\* text, err = tbl.Text(); on success typ = tbl.Type(), tbl.Close(), break
TblText ==
    /\ tpc = "Text"
    /\ \E ok \in BOOLEAN :
         IF ok
         THEN /\ text' = TextOf(tbl)
              /\ err' = "nil"
              /\ \E p \in PlatformTypes : typ' = TypeOf(tbl, p)
              /\ Close(tbl)
              /\ resp' = [resp EXCEPT ![tbl] = "ok"]
              /\ tpc' = "return"
              /\ UNCHANGED ti
         ELSE /\ text' = NoValue
              /\ fail
              /\ resp' = [resp EXCEPT ![tbl] = "Text failed"]
              /\ continue
              /\ UNCHANGED typ
    /\ UNCHANGED <<goos, alltbl, tbl, symtab, pclntab, opened, tried, nexec>>

\* NewExec after newtbl returned
NewExec ==
    /\ tpc = "return"
    /\ tpc' = "done"
    /\ IF err # "nil"
       THEN nexec' = [state |-> "returned", ex |-> "nil", err |-> err]
       ELSE \E lntab \in {"nil", "ok"}, tab \in {"error", "ok"} :
              nexec' = IF lntab = "nil" \/ tab = "error"
                       THEN [state |-> "returned", ex |-> "nil", err |-> ErrNotGoExec]
                       ELSE [state |-> "returned",
                             ex |-> [Type |-> typ, symtab |-> symtab, pclntab |-> pclntab,
                                     text |-> text],
                             err |-> "nil"]
    /\ UNCHANGED <<goos, alltbl, ti, tbl, err, symtab, pclntab, text, typ,
                   openHandles, opened, closed, resp, tried>>

\* ------------------------------------------------------------------------
\* Resolution of the import path: Import, Exec.Import, guesspkg, genpkgpath
\* ------------------------------------------------------------------------

\* runtime.GOROOT() of the process, and its value with $GOROOT unset
GOROOT == <<"/","g">>
GOROOT_FINAL == <<"/","u","s","r","/","l","o","c","a","l","/","g","o">>

\* build.Default.GOPATH
DefaultGOPATH == <<"/","h">>

\* the map filtered after init()
filtered ==
    {FromSlash(<<"/","t","m","p","/","m","a","k","e","r","e","l","e","a","s","e">>), FromSlash(<<"<","a","u","t","o","g","e","n","e","r","a","t","e","d",">">>),
     FromSlash(<<"c",":","/","g","o","/","s","r","c">>), FromSlash(<<"/","u","s","r","/","l","o","c","a","l","/","g","o","/","s","r","c">>),
     GOROOT, GOROOT_FINAL}

src == FromSlash(<<"/","s","r","c","/">>)

mod == FromSlash(<<"/","p","k","g","/","m","o","d","/">>)

isfiltered(file) == \E f \in filtered : Contains(file, f)

\* strings.Split(s, sep) for a one-character sep
RECURSIVE Split(_, _)
Split(s, sep) ==
    LET i == IndexRune(s, sep)
    IN  IF i = -1 THEN <<s>>
        ELSE <<Slice(s, 0, i)>> \o Split(SliceFrom(s, i + 1), sep)

\* getgopath, given the value of $GOPATH
getgopath(envGOPATH) ==
    LET gopath == IF envGOPATH = <<>> THEN DefaultGOPATH ELSE envGOPATH
    IN  Split(gopath, ":")

\* The file system as filepath.EvalSymlinks sees it: at most one symbolic link
\* (link = <<from, to>>, <<>> when there is none) and the paths that do not
\* exist (everything at or below a member of missing).
NoLink == <<>>

IsBelow(p, d) == p = d \/ HasPrefix(p, d \o <<PathSeparator>>) \/ d = <<PathSeparator>>

\* p with the symbolic link followed
Resolve(p, link) ==
    IF link # NoLink /\ IsBelow(p, link[1])
    THEN link[2] \o SliceFrom(p, Len(link[1]))
    ELSE p

\* filepath.EvalSymlinks: the cleaned resolved path, or an error for a path
\* that does not exist
EvalSymlinks(p, fs) ==
    IF \E d \in fs.missing : IsBelow(p, d)
    THEN [path |-> <<>>, err |-> "lstat: no such file or directory"]
    ELSE [path |-> Clean(Resolve(p, fs.link)), err |-> "nil"]

\* the path as canonicalized by genpkgpath: resolved, or as given on an error
Canonical(p, fs) ==
    LET r == EvalSymlinks(p, fs)
    IN  IF r.err = "nil" THEN r.path ELSE p

\* One range loop of guesspkg over dirs in the order the map iteration gave,
\* with the first match taken as the answer
RECURSIVE guessLoopFirstWins(_, _, _)
guessLoopFirstWins(s, order, st) ==
    IF Len(order) = 0 \/ st.returned THEN st
    ELSE LET dir == order[1]
             i == LastIndex(dir, src)
         IN  IF Contains(dir, s) /\ i # -1
             THEN [pkg |-> SliceFrom(dir, i + Len(src)), unique |-> TRUE, returned |-> TRUE]
             ELSE guessLoopFirstWins(s, Tail(order), st)

\* One range loop of guesspkg with the return on the second match left out:
\* unique is cleared and the loop goes on
RECURSIVE guessLoopNoReturn(_, _, _)
guessLoopNoReturn(s, order, st) ==
    IF Len(order) = 0 \/ st.returned THEN st
    ELSE LET dir == order[1]
             i == LastIndex(dir, src)
         IN  IF Contains(dir, s) /\ i # -1
             THEN guessLoopNoReturn(s, Tail(order),
                      [pkg |-> SliceFrom(dir, i + Len(src)), unique |-> ~st.unique,
                       returned |-> FALSE])
             ELSE guessLoopNoReturn(s, Tail(order), st)

\* One range loop of guesspkg over dirs, in the order the map iteration gave
RECURSIVE guessLoop(_, _, _)
guessLoop(s, order, st) ==
    IF Len(order) = 0 \/ st.returned THEN st
    ELSE LET dir == order[1]
             i == LastIndex(dir, src)
         IN  IF Contains(dir, s) /\ i # -1
             THEN IF st.unique
                  THEN [pkg |-> SliceFrom(dir, i + Len(src)), unique |-> FALSE,
                        returned |-> TRUE]
                  ELSE guessLoop(s, Tail(order),
                           [pkg |-> SliceFrom(dir, i + Len(src)), unique |-> TRUE,
                            returned |-> FALSE])
             ELSE guessLoop(s, Tail(order), st)

\* guesspkg; orders[k] is the order in which the k-th range loop visits dirs
guesspkg(name, orders) ==
    LET st0 == [pkg |-> <<>>, unique |-> FALSE, returned |-> FALSE]
        st1 == guessLoop(<<"c","m","d">> \o <<PathSeparator>> \o name, orders[1], st0)
        st2 == IF st1.returned \/ st1.unique THEN st1
               ELSE guessLoop(name, orders[2], st1)
    IN  [pkg |-> ToSlash(st2.pkg), unique |-> st2.unique]

\* the range loop of genpkgpath over checkpaths with no return on a match:
\* the last root that matches decides
RECURSIVE checkLoopLastWins(_, _, _, _)
checkLoopLastWins(dir, checkpaths, fs, k) ==
    IF k > Len(checkpaths) THEN [hit |-> FALSE]
    ELSE LET path == Canonical(checkpaths[k], fs)
             pth == path \o <<PathSeparator>>
             spth == pth \o <<"s","r","c">> \o <<PathSeparator>>
             mpth == Join(<<pth, <<"p","k","g">>, <<"m","o","d">>>>) \o <<PathSeparator>>
             later == checkLoopLastWins(dir, checkpaths, fs, k + 1)
         IN  IF later.hit THEN later
             ELSE IF ~HasPrefix(dir, pth) THEN later
             ELSE IF HasPrefix(dir, spth)
             THEN [hit |-> TRUE, pkg |-> SliceFrom(dir, Len(spth)), root |-> k, via |-> "src"]
             ELSE IF HasPrefix(dir, mpth)
             THEN [hit |-> TRUE, pkg |-> pathtomodule(SliceFrom(dir, Len(mpth))),
                   root |-> k, via |-> "mod"]
             ELSE later

\* the range loop of genpkgpath over checkpaths, from position k
RECURSIVE checkLoop(_, _, _, _)
checkLoop(dir, checkpaths, fs, k) ==
    IF k > Len(checkpaths) THEN [hit |-> FALSE]
    ELSE LET path == Canonical(checkpaths[k], fs)
             pth == path \o <<PathSeparator>>
             spth == pth \o <<"s","r","c">> \o <<PathSeparator>>
             mpth == Join(<<pth, <<"p","k","g">>, <<"m","o","d">>>>) \o <<PathSeparator>>
         IN  IF ~HasPrefix(dir, pth) THEN checkLoop(dir, checkpaths, fs, k + 1)
             ELSE IF HasPrefix(dir, spth)
             THEN [hit |-> TRUE, pkg |-> SliceFrom(dir, Len(spth)), root |-> k, via |-> "src"]
             ELSE IF HasPrefix(dir, mpth)
             THEN [hit |-> TRUE, pkg |-> pathtomodule(SliceFrom(dir, Len(mpth))),
                   root |-> k, via |-> "mod"]
             ELSE checkLoop(dir, checkpaths, fs, k + 1)

\* the end of genpkgpath as its doc comment has it: a directory under no
\* root is returned untouched
lastResortUntouched(dir) ==
    LET i == LastIndex(dir, mod)
    IN  IF i # -1
        THEN [pkg |-> pathtomodule(SliceFrom(dir, i + Len(mod))), err |-> "nil", via |-> "marker"]
        ELSE [pkg |-> dir, err |-> "nil", via |-> "none"]

\* the end of genpkgpath: the /pkg/mod/ marker anywhere in dir, or the error
lastResort(dir) ==
    LET i == LastIndex(dir, mod)
    IN  IF i # -1
        THEN [pkg |-> pathtomodule(SliceFrom(dir, i + Len(mod))), err |-> "nil", via |-> "marker"]
        ELSE [pkg |-> <<>>, err |-> ErrGuessFail, via |-> "none"]

\* genpkgpath(name, dir) in the environment env: env.gopath is $GOPATH and
\* env.fs the file system
genpkgpath(name, dir, env) ==
    LET checkpaths == <<GOROOT>> \o getgopath(env.gopath)
        cdir == Canonical(dir, env.fs)
        found == checkLoop(cdir, checkpaths, env.fs, 1)
        guess == guesspkg(name, <<<<cdir>>, <<cdir>>>>)
    IN  IF found.hit THEN [pkg |-> found.pkg, err |-> "nil", via |-> found.via]
        ELSE IF guess.unique THEN [pkg |-> guess.pkg, err |-> "nil", via |-> "guesspkg"]
        ELSE lastResort(cdir)

\* the executable name Exec.Import works with
execName(path, type) ==
    IF type = PlatformWindows386 \/ type = PlatformWindowsAMD64
    THEN TrimSuffix(Base(path), <<".","e","x","e">>)
    ELSE Base(path)

\* the directories the fallback scan of Exec.Import collects from table.Files
scanDirs(files) ==
    {Dir(f.file) : f \in {g \in files : <<"m","a","i","n",".","m","a","i","n">> \in g.funcs /\ ~isfiltered(g.file)}}

ModIdle ==
    /\ mdir = <<>>
    /\ mout = <<>>
    /\ mpc = "idle"

TblIdle ==
    /\ goos = "linux"
    /\ alltbl = initAlltbl(goos)
    /\ ti = 1
    /\ tpc = "idle"
    /\ tbl = "nil"
    /\ err = "nil"
    /\ symtab = NoValue
    /\ pclntab = NoValue
    /\ text = NoValue
    /\ typ = NoValue
    /\ openHandles = {}
    /\ opened = [r \in Readers |-> 0]
    /\ closed = [r \in Readers |-> 0]
    /\ resp = [r \in Readers |-> "untried"]
    /\ tried = <<>>
    /\ nexec = [state |-> "idle"]

\* ------------------------------------------------------------------------
\* Inputs of the resolution
\* ------------------------------------------------------------------------

\* the paths Import is called with
ExecPaths == {<<"/","b","/","f">>, <<"/","b","/","f",".","e","x","e">>}

\* what NewExec returns to Import: an error of newtbl, or an Exec of some type
NewExecResults ==
    {[err |-> ErrNotGoExec, Type |-> NoValue], [err |-> ErrReadSymtab, Type |-> NoValue]}
    \cup {[err |-> "nil", Type |-> t] : t \in {PlatformLinuxAMD64, PlatformWindowsAMD64}}

\* source files that the line table may give for the entry of main.main
EntryFiles ==
    {<<"/","r","/","s","r","c","/","e","/","f","/","m",".","g","o">>, <<"/","r","/","s","r","c","/","e","/","/","m",".","g","o">>, <<"/","r","/","s","r","c","/","m",".","g","o">>, <<"/","r","/","x","/","m",".","g","o">>,
     <<"/","r","/","p","k","g","/","m","o","d","/","e","@","v","/","m",".","g","o">>, <<"/","r","/","p","k","g","/","m","o","d","/","e","@","v","/","c","m","d","/","f","/","m",".","g","o">>, <<"/","r","/","s","r","c","/","p","k","g","/","m","o","d","/","e","@","v","/","m",".","g","o">>,
     <<"/","o","/","p","k","g","/","m","o","d","/","e","@","v","/","m",".","g","o">>, <<"/","o","/","s","r","c","/","c","m","d","/","f","/","m",".","g","o">>, <<"/","o","/","s","r","c","/","e","/","f","/","m",".","g","o">>, <<"/","o","/","x","/","m",".","g","o">>,
     <<"/","o","/","f","/","m",".","g","o">>, <<"/","h","/","s","r","c","/","e","/","m",".","g","o">>, <<"/","g","/","s","r","c","/","c","m","d","/","f","/","m",".","g","o">>, <<"m",".","g","o">>,
     <<"/","r","o","o","t","/","s","r","c","/","e","x","a","m","p","l","e",".","c","o","m","/","f","o","o","/","m","a","i","n",".","g","o">>,
     <<"/","r","o","o","t","/","p","k","g","/","m","o","d","/","e","x","a","m","p","l","e",".","c","o","m","/","f","o","o","@","v","1",".","0",".","0","/","c","m","d","/","b","a","r","/","m","a","i","n",".","g","o">>,
     <<"/","o","t","h","e","r","/","p","k","g","/","m","o","d","/","e","x","a","m","p","l","e",".","c","o","m","/","f","o","o","@","v","2",".","0",".","0","/","m","a","i","n",".","g","o">>}

\* entries table.Files may hold: a source file and the names of its functions
FileEntries ==
    {[file |-> <<"/","r","/","s","r","c","/","e","/","c","m","d","/","f","/","m",".","g","o">>, funcs |-> {<<"m","a","i","n",".","m","a","i","n">>, <<"m","a","i","n",".","i","n","i","t">>}],
     [file |-> <<"/","o","/","s","r","c","/","c","m","d","/","f","/","m",".","g","o">>, funcs |-> {<<"m","a","i","n",".","m","a","i","n">>}],
     [file |-> <<"/","o","/","c","m","d","/","f","/","m",".","g","o">>, funcs |-> {<<"m","a","i","n",".","m","a","i","n">>}],
     [file |-> <<"/","r","/","s","r","c","/","e","/","f","/","m",".","g","o">>, funcs |-> {<<"m","a","i","n",".","m","a","i","n">>}],
     [file |-> <<"/","r","/","s","r","c","/","e","/","m",".","g","o">>, funcs |-> {<<"m","a","i","n",".","m","a","i","n">>}],
     [file |-> <<"/","r","/","s","r","c","/","c","m","d","/","f","/","x",".","g","o">>, funcs |-> {<<"m","a","i","n",".","i","n","i","t">>}],
     [file |-> <<"/","g","/","s","r","c","/","c","m","d","/","f","/","m",".","g","o">>, funcs |-> {<<"m","a","i","n",".","m","a","i","n">>}],
     [file |-> <<"<","a","u","t","o","g","e","n","e","r","a","t","e","d",">">>, funcs |-> {<<"m","a","i","n",".","m","a","i","n">>}]}

\* the symbol tables an Exec may own: without main.main; with main.main and
\* its line information; with main.main and no function for its entry
Tables ==
    {[mainfn |-> FALSE, fn |-> FALSE, file |-> <<>>, files |-> fs] :
        fs \in {{e \in FileEntries : <<"m","a","i","n",".","m","a","i","n">> \notin e.funcs}}}
    \cup {[mainfn |-> TRUE, fn |-> TRUE, file |-> f, files |-> {}] : f \in EntryFiles}
    \cup {[mainfn |-> TRUE, fn |-> FALSE, file |-> <<>>, files |-> fs] :
            fs \in {x \in SUBSET FileEntries : Cardinality(x) <= MaxFiles}}

\* values of $GOPATH
GoPathEnvs == {<<>>, <<"/","r">>, <<"/","o",":","/","r">>, <<"/","r",":","/","r","/","s","r","c">>, <<"/","r","o","o","t">>}

\* file systems
FileSystems ==
    {[link |-> NoLink, missing |-> {}],
     [link |-> NoLink, missing |-> {<<PathSeparator>>}],
     [link |-> <<<<"/","o">>, <<"/","r">>>>, missing |-> {}],
     [link |-> <<<<"/","o","/","p","k","g">>, <<"/","d">>>>, missing |-> {}],
     [link |-> <<<<"/","r">>, <<"/","o">>>>, missing |-> {<<"/","h">>}]}

Environments == [gopath : GoPathEnvs, fs : FileSystems]

\* the orders in which a range over the set s may visit it
RECURSIVE Orders(_)
Orders(s) ==
    IF s = {} THEN {<<>>}
    ELSE UNION {{<<x>> \o o : o \in Orders(s \ {x})} : x \in s}

\* ------------------------------------------------------------------------
\* Import and Exec.Import
\* ------------------------------------------------------------------------

NoResult == [pkg |-> <<>>, err |-> "none", by |-> "none"]

InitImport ==
    /\ ipc = "Import"
    /\ expath \in ExecPaths
    /\ ex = [Type |-> NoValue, table |-> NoValue]
    /\ ename = <<>>
    /\ dirs = {}
    /\ gdir = <<>>
    /\ genv = NoValue
    /\ gret = NoResult
    /\ ret = NoResult
    /\ ran = {}
    /\ TblIdle
    /\ ModIdle

ImportIdle ==
    /\ ipc = "idle"
    /\ expath = <<>>
    /\ ex = [Type |-> NoValue, table |-> NoValue]
    /\ ename = <<>>
    /\ dirs = {}
    /\ gdir = <<>>
    /\ genv = NoValue
    /\ gret = NoResult
    /\ ret = NoResult
    /\ ran = {}

\* Import: ex, err := NewExec(path)
Import ==
    /\ ipc = "Import"
    /\ \E r \in NewExecResults :
         IF r.err # "nil"
         THEN /\ ret' = [pkg |-> <<>>, err |-> r.err, by |-> "Import"]
              /\ ipc' = "ret"
              /\ UNCHANGED ex
         ELSE /\ \E t \in Tables : ex' = [Type |-> r.Type, table |-> t]
              /\ ipc' = "Exec.Import"
              /\ UNCHANGED ret
    /\ ran' = ran \cup {"NewExec"}
    /\ UNCHANGED <<expath, ename, dirs, gdir, genv, gret>>

\* Exec.Import with the test of mainfn left out: without main.main it goes on
\* to the fallback scan
ExecImportNoGiveUp ==
    /\ ipc = "Exec.Import"
    /\ ename' = execName(expath, ex.Type)
    /\ IF ex.table.mainfn /\ ex.table.fn
       THEN /\ ran' = ran \cup {"LookupFunc", "PCToLine", "genpkgpath"}
            /\ gdir' = Dir(ex.table.file)
            /\ ipc' = "genpkgpath"
            /\ UNCHANGED ret
       ELSE /\ ran' = ran \cup {"LookupFunc"}
            /\ ipc' = "scan"
            /\ UNCHANGED <<ret, gdir>>
    /\ UNCHANGED <<expath, ex, dirs, genv, gret>>

\* Exec.Import up to the call of genpkgpath or the start of the fallback scan
ExecImport ==
    /\ ipc = "Exec.Import"
    /\ ename' = execName(expath, ex.Type)
    /\ IF ~ex.table.mainfn
       THEN /\ ran' = ran \cup {"LookupFunc"}
            /\ ret' = [pkg |-> <<>>, err |-> ErrGuessFail, by |-> "Exec.Import"]
            /\ ipc' = "ret"
            /\ UNCHANGED gdir
       ELSE IF ex.table.fn
       THEN /\ ran' = ran \cup {"LookupFunc", "PCToLine", "genpkgpath"}
            /\ gdir' = Dir(ex.table.file)
            /\ ipc' = "genpkgpath"
            /\ UNCHANGED ret
       ELSE /\ ran' = ran \cup {"LookupFunc", "PCToLine"}
            /\ ipc' = "scan"
            /\ UNCHANGED <<ret, gdir>>
    /\ UNCHANGED <<expath, ex, dirs, genv, gret>>

\* Exec.Import: the fallback scan over table.Files
ExecImportScan ==
    /\ ipc = "scan"
    /\ dirs' = scanDirs(ex.table.files)
    /\ ran' = ran \cup {"scan"}
    /\ ipc' = "guesspkg"
    /\ UNCHANGED <<expath, ex, ename, gdir, genv, gret, ret>>

\* Exec.Import: what it returns on the answer g of guesspkg
importResult(g) ==
    IF g.unique /\ g.pkg # <<>>
    THEN [pkg |-> g.pkg, err |-> "nil", by |-> "guesspkg"]
    ELSE [pkg |-> <<>>, err |-> ErrGuessFail, by |-> "guesspkg"]

\* Exec.Import: guesspkg on the collected directories and the return
ExecImportGuess ==
    /\ ipc = "guesspkg"
    /\ \E o1 \in Orders(dirs), o2 \in Orders(dirs) :
         ret' = importResult(guesspkg(ename, <<o1, o2>>))
    /\ ran' = ran \cup {"guesspkg"}
    /\ ipc' = "ret"
    /\ UNCHANGED <<expath, ex, ename, dirs, gdir, genv, gret>>

\* the call genpkgpath(ename, filepath.Dir(file)) and the return of its result
GenPkgPath ==
    /\ ipc = "genpkgpath"
    /\ \E env \in Environments :
         /\ genv' = env
         /\ gret' = genpkgpath(ename, gdir, env)
    /\ ret' = [pkg |-> gret'.pkg, err |-> gret'.err, by |-> "genpkgpath"]
    /\ ipc' = "ret"
    /\ UNCHANGED <<expath, ex, ename, dirs, gdir, ran>>

NextImport ==
    \/ (Import /\ UNCHANGED <<tblvars, modvars>>)
    \/ (ExecImport /\ UNCHANGED <<tblvars, modvars>>)
    \/ (ExecImportScan /\ UNCHANGED <<tblvars, modvars>>)
    \/ (ExecImportGuess /\ UNCHANGED <<tblvars, modvars>>)
    \/ (GenPkgPath /\ UNCHANGED <<tblvars, modvars>>)

SpecImport == InitImport /\ [][NextImport]_vars

Init == InitTbl /\ ModIdle /\ ImportIdle

Next ==
    \/ (TblOpen /\ UNCHANGED <<modvars, impvars>>)
    \/ (TblSym /\ UNCHANGED <<modvars, impvars>>)
    \/ (TblPcln /\ UNCHANGED <<modvars, impvars>>)
    \/ (TblText /\ UNCHANGED <<modvars, impvars>>)
    \/ (TblReturn /\ UNCHANGED <<modvars, impvars>>)
    \/ (NewExec /\ UNCHANGED <<modvars, impvars>>)

Spec == Init /\ [][Next]_vars

\* ------------------------------------------------------------------------
\* Calls of pathtomodule on generated directory remainders
\* ------------------------------------------------------------------------

ModAlphabet == {"a", "@", ".", PathSeparator}

RECURSIVE StringsUpTo(_, _)
StringsUpTo(alpha, n) ==
    IF n = 0 THEN {<<>>}
    ELSE LET shorter == StringsUpTo(alpha, n - 1)
         IN  shorter \cup {Append(s, c) : s \in {t \in shorter : Len(t) = n - 1}, c \in alpha}

FredInput == <<"f","r","e","d","@","v","1",".","2",".","3","/","c","m","d","/","p","r","o","g","r","a","m">>
FredOutput == <<"f","r","e","d","/","c","m","d","/","p","r","o","g","r","a","m","@","v","1",".","2",".","3">>

ModInputs == StringsUpTo(ModAlphabet, MaxLen) \cup {FredInput}

InitMod ==
    /\ mdir \in ModInputs
    /\ mout = <<>>
    /\ mpc = "call"
    /\ TblIdle
    /\ ImportIdle

CallPathToModule ==
    /\ mpc = "call"
    /\ mout' = pathtomodule(mdir)
    /\ mpc' = "ret"
    /\ UNCHANGED mdir

NextMod == CallPathToModule /\ UNCHANGED <<tblvars, impvars>>

SpecMod == InitMod /\ [][NextMod]_vars

\* ------------------------------------------------------------------------
\* Properties of format detection
\* ------------------------------------------------------------------------

Returned == tpc \in {"return", "done"}

OkReaders == {r \in Readers : resp[r] = "ok"}

FailureKinds == {"open failed", "Sym failed", "Pcln failed", "Text failed"}

\* position of reader r in alltbl
PosOf(r) == CHOOSE i \in 1..Len(alltbl) : alltbl[i] = r

\* C1: whenever no reader yields all three artifacts, the error newtbl returns,
\* and NewExec hands on, is ErrNotGoExec, also when a reader opened the file
\* and one of its extraction steps failed, wherever it stands in the order.
C1_AllFailedIsNotGoExec ==
    /\ (Returned /\ OkReaders = {}) => err = ErrNotGoExec
    /\ (nexec.state = "returned" /\ OkReaders = {}) => nexec.err = ErrNotGoExec

\* C2: every handle an open step returned is closed exactly once before newtbl
\* returns, on every path; never two handles open at once, none open when the
\* next reader is tried, and no Close for a reader whose open step failed.
C2_HandlesReleased ==
    /\ Cardinality(openHandles) <= 1
    /\ openHandles = {r \in Readers : opened[r] > closed[r]}
    /\ \A r \in Readers :
         /\ closed[r] <= opened[r]
         /\ opened[r] <= 1
         /\ resp[r] = "open failed" => (opened[r] = 0 /\ closed[r] = 0)
         /\ resp[r] \in {"Sym failed", "Pcln failed", "Text failed", "ok"}
              => (opened[r] = 1 /\ closed[r] = 1)
    /\ tpc = "range" => openHandles = {}
    /\ Returned => (openHandles = {} /\ \A r \in Readers : closed[r] = opened[r])

C2_Witness ==
    /\ tpc = "return"
    /\ \E r1, r2, r3 \in Readers :
         /\ resp[r1] = "open failed" /\ closed[r1] = 0
         /\ resp[r2] = "Pcln failed" /\ closed[r2] = 1
         /\ resp[r3] = "ok" /\ closed[r3] = 1

\* the native reader of a host
NativeReader(os) ==
    IF os = "darwin" THEN "newmacho" ELSE IF os = "windows" THEN "newpe" ELSE "newelf"

\* C3: readers are tried in the order of the reader list, native format first;
\* a failure never ends the trial while a later reader remains; the trial stops
\* at the first reader that yields all three artifacts: no later reader is
\* opened, the error is nil and symtab, pclntab, text and typ come from it.
C3_FirstCompleteReaderWins ==
    /\ alltbl[1] = NativeReader(goos)
    /\ Len(tried) <= Len(alltbl)
    /\ tried = SubSeq(alltbl, 1, Len(tried))
    /\ Returned =>
         IF OkReaders = {}
         THEN /\ tried = alltbl
              /\ \A r \in Readers : resp[r] \in FailureKinds
         ELSE \E r \in OkReaders :
                /\ OkReaders = {r}
                /\ tried = SubSeq(alltbl, 1, PosOf(r))
                /\ \A i \in 1..Len(alltbl) :
                     /\ i < PosOf(r) => resp[alltbl[i]] \in FailureKinds
                     /\ i > PosOf(r) => (resp[alltbl[i]] = "untried" /\ opened[alltbl[i]] = 0)
                /\ err = "nil"
                /\ symtab = SymOf(r)
                /\ pclntab = PclnOf(r)
                /\ text = TextOf(r)
                /\ typ.kind = "type" /\ typ.from = r

C3_Witness ==
    /\ tpc = "return"
    /\ resp[alltbl[1]] = "Sym failed"
    /\ resp[alltbl[2]] = "ok"
    /\ resp[alltbl[3]] = "untried"
    /\ err = "nil"
    /\ typ.kind = "type" /\ typ.from = alltbl[2]

\* ------------------------------------------------------------------------
\* Properties of the resolution
\* ------------------------------------------------------------------------

\* Exec.Import returned from its fallback (guesspkg on the scanned dirs)
ReturnedByFallback == ipc = "ret" /\ ret.by = "guesspkg"

\* genpkgpath returned
ReturnedByGenpkgpath == ipc = "ret" /\ ret.by = "genpkgpath"

\* cmd/<name>
CmdName == <<"c","m","d">> \o <<PathSeparator>> \o ename

\* two distinct candidate directories that both contain cmd/<name>
TwoCmdDirs ==
    \E d1, d2 \in dirs : d1 # d2 /\ Contains(d1, CmdName) /\ Contains(d2, CmdName)

\* two distinct candidate directories that both contain cmd/<name> and /src/
TwoCmdSrcDirs ==
    \E d1, d2 \in dirs :
        /\ d1 # d2
        /\ Contains(d1, CmdName) /\ Contains(d1, src)
        /\ Contains(d2, CmdName) /\ Contains(d2, src)

\* C4 as stated: two distinct candidate directories that both contain
\* cmd/<name> make the resolution fail, whatever else their paths hold.
C4_TwoCmdDirsFail ==
    (ReturnedByFallback /\ TwoCmdDirs) => (ret.err = ErrGuessFail /\ ret.pkg = <<>>)

\* C4 amended: two distinct candidate directories that both contain cmd/<name>
\* and both contain a /src/ segment make the resolution fail; no import path
\* is returned.
C4_TwoCmdSrcDirsFail ==
    (ReturnedByFallback /\ TwoCmdSrcDirs) => (ret.err = ErrGuessFail /\ ret.pkg = <<>>)

C4_Witness ==
    /\ ReturnedByFallback
    /\ TwoCmdSrcDirs
    /\ Cardinality(dirs) = 3
    /\ ret.err = ErrGuessFail

\* the canonicalized directory and search roots of the call of genpkgpath
CanonDir == Canonical(gdir, genv.fs)
SearchRoots == <<GOROOT>> \o getgopath(genv.gopath)
CanonRoot(k) == Canonical(SearchRoots[k], genv.fs)
UnderSrc(k) == HasPrefix(CanonDir, CanonRoot(k) \o <<"/","s","r","c","/">>)
UnderMod(k) == HasPrefix(CanonDir, CanonRoot(k) \o <<"/","p","k","g","/","m","o","d","/">>)
MatchingRoots == {k \in 1..Len(SearchRoots) : UnderSrc(k) \/ UnderMod(k)}
FirstMatchingRoot == CHOOSE k \in MatchingRoots : \A j \in MatchingRoots : k <= j

ExampleSrcDir == <<"/","r","o","o","t","/","s","r","c","/","e","x","a","m","p","l","e",".","c","o","m","/","f","o","o">>
ExampleModDir == <<"/","r","o","o","t","/","p","k","g","/","m","o","d","/","e","x","a","m","p","l","e",".","c","o","m","/","f","o","o","@","v","1",".","0",".","0","/","c","m","d","/","b","a","r">>
ExampleOtherDir == <<"/","o","t","h","e","r","/","p","k","g","/","m","o","d","/","e","x","a","m","p","l","e",".","c","o","m","/","f","o","o","@","v","2",".","0",".","0">>
ExampleRoot == <<"/","r","o","o","t">>

\* C5: the result of genpkgpath is decided by the first search root r, in list
\* order, for which the canonicalized directory is under r/src/ (the remainder)
\* or under r/pkg/mod/ (pathtomodule of the remainder); other roots are
\* skipped and no later root changes the result.
C5_FirstMatchingRootDecides ==
    ReturnedByGenpkgpath =>
        /\ MatchingRoots # {} =>
             /\ gret.err = "nil"
             /\ gret.pkg =
                  IF UnderSrc(FirstMatchingRoot)
                  THEN SliceFrom(CanonDir, Len(CanonRoot(FirstMatchingRoot)) + Len(<<"/","s","r","c","/">>))
                  ELSE pathtomodule(SliceFrom(CanonDir,
                           Len(CanonRoot(FirstMatchingRoot)) + Len(<<"/","p","k","g","/","m","o","d","/">>)))
        /\ MatchingRoots = {} => gret.via \notin {"src", "mod"}
        /\ (gdir = ExampleSrcDir /\ genv.gopath = ExampleRoot)
             => gret.pkg = <<"e","x","a","m","p","l","e",".","c","o","m","/","f","o","o">>
        /\ (gdir = ExampleModDir /\ genv.gopath = ExampleRoot)
             => gret.pkg = <<"e","x","a","m","p","l","e",".","c","o","m","/","f","o","o","/","c","m","d","/","b","a","r","@","v","1",".","0",".","0">>

C5_Witness ==
    /\ ReturnedByGenpkgpath
    /\ gdir = <<"/","r","/","s","r","c","/","p","k","g","/","m","o","d","/","e","@","v">>
    /\ genv.gopath = <<"/","r",":","/","r","/","s","r","c">>
    /\ MatchingRoots = {2, 3}
    /\ gret.pkg = <<"p","k","g","/","m","o","d","/","e","@","v">>

\* the retry of the disambiguation on the single canonicalized directory
RetryUnique == guesspkg(ename, <<<<CanonDir>>, <<CanonDir>>>>).unique

\* the last resort of genpkgpath applies
LastResortCase == MatchingRoots = {} /\ ~RetryUnique

\* what the last resort gives on the directory string d
MarkerResult(d) ==
    IF Contains(d, <<"/","p","k","g","/","m","o","d","/">>)
    THEN [pkg |-> pathtomodule(SliceFrom(d, LastIndex(d, <<"/","p","k","g","/","m","o","d","/">>) + Len(<<"/","p","k","g","/","m","o","d","/">>))),
          err |-> "nil"]
    ELSE [pkg |-> <<>>, err |-> ErrGuessFail]

NoMainMain == ex.table # NoValue /\ ~ex.table.mainfn

\* C8: without a function main.main in the symbol table Import fails at once
\* with ErrGuessFail; neither the address-to-line lookup, nor the fallback
\* scan, nor guesspkg, nor genpkgpath is run.
C8_NoMainFailsAtOnce ==
    NoMainMain =>
        /\ ipc \in {"Exec.Import", "ret"}
        /\ ran \cap {"PCToLine", "scan", "guesspkg", "genpkgpath"} = {}
        /\ gret = NoResult
        /\ ipc = "ret" =>
             /\ ret = [pkg |-> <<>>, err |-> ErrGuessFail, by |-> "Exec.Import"]
             /\ ran = {"NewExec", "LookupFunc"}

C8_Witness ==
    /\ NoMainMain
    /\ ipc = "ret"
    /\ ex.table.files # {}
    /\ ret.err = ErrGuessFail

\* a call ended with a non-empty path and no error, or an error and no path
OneOutcome(r) ==
    \/ (r.pkg # <<>> /\ r.err = "nil")
    \/ (r.pkg = <<>> /\ r.err \in {ErrGuessFail, ErrNotGoExec, ErrReadSymtab})

\* C9: every call of Import, Exec.Import and genpkgpath ends with exactly one
\* of: a non-empty import path and no error, or an error and an empty path.
C9_PathOrError ==
    /\ ipc = "ret" => OneOutcome(ret)
    /\ gret # NoResult => OneOutcome(gret)

C9_Witness ==
    /\ ReturnedByGenpkgpath
    /\ ex.table.file = <<"/","r","/","s","r","c","/","m",".","g","o">>
    /\ gdir = <<"/","r","/","s","r","c">>
    /\ genv.gopath = <<"/","r">>
    /\ ret.pkg = <<>>
    /\ ret.err = ErrGuessFail

\* the outcomes of the fallback over all iteration orders of dirs
FallbackOutcomes ==
    {importResult(guesspkg(ename, <<o1, o2>>)) : o1 \in Orders(dirs), o2 \in Orders(dirs)}

\* C10: for a fixed executable name and Candidate Directory Set the outcome of
\* the resolution (the path returned, or the failure) is the same for every
\* order in which the set is iterated.
C10_OrderIndependent ==
    /\ ipc = "guesspkg" => Cardinality(FallbackOutcomes) = 1
    /\ ReturnedByFallback => FallbackOutcomes = {ret}

C10_Witness ==
    /\ ReturnedByFallback
    /\ Cardinality(dirs) = 3
    /\ \E d1, d2 \in dirs : d1 # d2 /\ Contains(d1, ename) /\ Contains(d2, ename)
    /\ ret.err = "nil"

\* ------------------------------------------------------------------------
\* Properties of pathtomodule
\* ------------------------------------------------------------------------

\* the input splits at its last "@" and at the first separator after it
HasSplit(d) ==
    /\ LastIndexByte(d, "@") # -1
    /\ IndexRune(SliceFrom(d, LastIndexByte(d, "@")), PathSeparator) # -1

ModuleOf(d) == Slice(d, 0, LastIndexByte(d, "@"))
VersionSuffixOf(d) ==
    LET versuf == SliceFrom(d, LastIndexByte(d, "@"))
    IN  Slice(versuf, 0, IndexRune(versuf, PathSeparator))
TailOf(d) ==
    LET versuf == SliceFrom(d, LastIndexByte(d, "@"))
    IN  SliceFrom(versuf, IndexRune(versuf, PathSeparator) + 1)

\* <module>/<tail>
ModuleSlashTail(d) == ModuleOf(d) \o <<PathSeparator>> \o TailOf(d)

\* no segment of p is empty, "." or ".." (a leading separator aside)
PlainPath(p) ==
    LET segs == Segments(p)
    IN  \A k \in 1..Len(segs) :
            /\ segs[k] \notin {<<".">>, <<".", ".">>}
            /\ segs[k] = <<>> => (k = 1 /\ Len(segs) > 1)

\* C6 as stated: every input <module>@<version>/<tail> gives
\* <module>/<tail>@<version>; every other input is returned unchanged.
C6_VersionMovedToEnd ==
    mpc = "ret" =>
        IF HasSplit(mdir)
        THEN mout = ModuleSlashTail(mdir) \o VersionSuffixOf(mdir)
        ELSE mout = mdir

\* C6 amended: an input <module>@<version>/<tail> gives the lexically cleaned
\* path <module>/<tail> followed by @<version>, which is <module>/<tail>@<version>
\* whenever <module>/<tail> has no empty, "." or ".." segment; the version
\* suffix ends the result; every other input is returned unchanged.
C6_VersionMovedToEndOfCleanPath ==
    mpc = "ret" =>
        IF HasSplit(mdir)
        THEN /\ HasSuffix(mout, VersionSuffixOf(mdir))
             /\ Slice(mout, 0, Len(mout) - Len(VersionSuffixOf(mdir)))
                  = Clean(ModuleSlashTail(mdir))
             /\ PlainPath(ModuleSlashTail(mdir))
                  => mout = ModuleSlashTail(mdir) \o VersionSuffixOf(mdir)
             /\ mdir = FredInput => mout = FredOutput
        ELSE mout = mdir

C6_Witness ==
    /\ mpc = "ret"
    /\ mdir = FredInput
    /\ mout = FredOutput

====
